---- MODULE Spec2Model ----
(***************************************************************************)
(* Model of the listing image scraper (src/listing_image_scraper.py):      *)
(* a batch runner feeding a thread pool of listing workers, the listing    *)
(* orchestrator process_listing, the two site extractors, the image        *)
(* downloader download_image, the shared stats dictionary and the          *)
(* SIGINT handler.                                                         *)
(*                                                                         *)
(* Strings are sequences of one-character strings.  The filesystem is a    *)
(* set of directories and a function from existing file paths to content.  *)
(* A statement  stats[k] += 1  is a read of stats[k] followed by a write   *)
(* of the value read plus one; several worker threads execute such         *)
(* statements on the same dictionary with no lock.                         *)
(***************************************************************************)
EXTENDS Integers, Sequences, FiniteSets, TLC

(***************************************************************************)
(* Bounds of the model.                                                    *)
(***************************************************************************)
NumUrls == 2
MaxThreads == 2

(***************************************************************************)
(* Strings.                                                                *)
(***************************************************************************)
None == <<"None">>

Letters ==
  {"a","b","c","d","e","f","g","h","i","j","k","l","m","n","o","p","q","r",
   "s","t","u","v","w","x","y","z","A","B","C","D","E","F","G","H","I","J",
   "K","L","M","N","O","P","Q","R","S","T","U","V","W","X","Y","Z"}

Digits == {"0","1","2","3","4","5","6","7","8","9"}

valid_chars == {"-", "_", ".", "(", ")", " "} \cup Letters \cup Digits

MaxNameLen == 100
KeptLen == 97

KeepValid(s) == LET Valid(c) == c \in valid_chars IN SelectSeq(s, Valid)

SpacesToUnderscores(s) == [i \in 1..Len(s) |-> IF s[i] = " " THEN "_" ELSE s[i]]

sanitize_filename_keep100(name) ==
  LET sanitized == SpacesToUnderscores(KeepValid(name))
  IN IF Len(sanitized) > MaxNameLen
       THEN SubSeq(sanitized, 1, MaxNameLen) \o <<".", ".", ".">>
       ELSE sanitized

sanitize_filename(name) ==
  LET sanitized == SpacesToUnderscores(KeepValid(name))
  IN IF Len(sanitized) > MaxNameLen
       THEN SubSeq(sanitized, 1, KeptLen) \o <<".", ".", ".">>
       ELSE sanitized

RECURSIVE LStrip(_)
LStrip(s) == IF s # <<>> /\ Head(s) = " " THEN LStrip(Tail(s)) ELSE s

RECURSIVE RStrip(_)
RStrip(s) ==
  IF s # <<>> /\ s[Len(s)] = " " THEN RStrip(SubSeq(s, 1, Len(s) - 1)) ELSE s

Strip(s) == RStrip(LStrip(s))

RECURSIVE BeforeBar(_)
BeforeBar(s) ==
  IF s = <<>> \/ Head(s) = "|" THEN <<>> ELSE <<Head(s)>> \o BeforeBar(Tail(s))

(***************************************************************************)
(* Image URLs.  An image URL is a record: img is the image the URL names,  *)
(* size the number of its s-l<digits> token (0: no such token), query its  *)
(* query string (0: none), kw whether the URL contains "product" or        *)
(* "listing", rel whether it is a relative path.  EmptySrc is the empty    *)
(* string.                                                                 *)
(***************************************************************************)
FullSize == 1600
ThumbSizes == {64, 300, 400}

EmptySrc == [img |-> 0, size |-> 0, query |-> 0, kw |-> FALSE, rel |-> FALSE]

U(i, s, q) == [img |-> i, size |-> s, query |-> q, kw |-> TRUE, rel |-> FALSE]

normalize_image_url(url) ==
  [url EXCEPT !.size = IF url.size # 0 THEN FullSize ELSE 0, !.query = 0]

RECURSIVE Dedup_rawkey(_, _)
Dedup_rawkey(image_urls, seen) ==
  IF image_urls = <<>> THEN <<>>
  ELSE IF Head(image_urls) \in seen
         THEN Dedup_rawkey(Tail(image_urls), seen)
         ELSE <<Head(image_urls)>>
                \o Dedup_rawkey(Tail(image_urls), seen \cup {Head(image_urls)})

RECURSIVE Dedup(_, _)
Dedup(image_urls, seen) ==
  IF image_urls = <<>> THEN <<>>
  ELSE LET norm_url == normalize_image_url(Head(image_urls))
       IN IF norm_url \in seen
            THEN Dedup(Tail(image_urls), seen)
            ELSE <<Head(image_urls)>> \o Dedup(Tail(image_urls), seen \cup {norm_url})

NonEmptySrc(s) == LET Keep(u) == u # EmptySrc IN SelectSeq(s, Keep)

ToFullSize(s) ==
  [i \in 1..Len(s) |->
     IF s[i].size \in ThumbSizes THEN [s[i] EXCEPT !.size = FullSize] ELSE s[i]]

KeywordOnly(s) == LET Keep(u) == u # EmptySrc /\ u.kw IN SelectSeq(s, Keep)

urljoin(s) == [i \in 1..Len(s) |-> [s[i] EXCEPT !.rel = FALSE]]

(***************************************************************************)
(* Image URLs as text.  normalize_image_url_text is normalize_image_url on *)
(* the characters of a URL: re.sub(r's-l\d+', 's-l1600', url) followed by   *)
(* re.sub(r'\?.*$', '', url), for URLs without line breaks.  Text(url) is   *)
(* the text of an image URL record.                                        *)
(***************************************************************************)
S_L == <<"s", "-", "l">>

DigitChars == <<"0", "1", "2", "3", "4", "5", "6", "7", "8", "9">>

RECURSIVE DigitsOf(_)
DigitsOf(n) ==
  IF n < Len(DigitChars) THEN <<DigitChars[n + 1]>>
  ELSE DigitsOf(n \div Len(DigitChars)) \o <<DigitChars[(n % Len(DigitChars)) + 1]>>

RECURSIVE SkipDigits(_)
SkipDigits(s) == IF s # <<>> /\ Head(s) \in Digits THEN SkipDigits(Tail(s)) ELSE s

\* s begins with a match of s-l\d+
AtSizeToken(s) ==
  /\ Len(s) > Len(S_L)
  /\ SubSeq(s, 1, Len(S_L)) = S_L
  /\ s[Len(S_L) + 1] \in Digits

RECURSIVE re_sub_size(_)
re_sub_size(s) ==
  IF s = <<>> THEN <<>>
  ELSE IF AtSizeToken(s)
    THEN S_L \o DigitsOf(FullSize)
           \o re_sub_size(SkipDigits(SubSeq(s, Len(S_L) + 1, Len(s))))
    ELSE <<Head(s)>> \o re_sub_size(Tail(s))

RECURSIVE re_sub_query(_)
re_sub_query(s) ==
  IF s = <<>> \/ Head(s) = "?" THEN <<>> ELSE <<Head(s)>> \o re_sub_query(Tail(s))

normalize_image_url_text(url) == re_sub_query(re_sub_size(url))

Text(url) ==
  IF url = EmptySrc THEN <<>>
  ELSE (IF url.rel THEN <<>> ELSE <<"h", ":">>)
         \o <<"/">> \o (IF url.kw THEN <<"p">> ELSE <<"i">>) \o DigitsOf(url.img)
         \o (IF url.size # 0 THEN <<"/">> \o S_L \o DigitsOf(url.size) ELSE <<>>)
         \o (IF url.query # 0 THEN <<"?">> \o DigitsOf(url.query) ELSE <<>>)

(***************************************************************************)
(* Listing pages.  h1 and titleTag are the texts of the primary title      *)
(* element and of the <title> element (None: element absent); m1..m4 are   *)
(* what the four image strategies find in the markup, in document order.   *)
(***************************************************************************)
SiteTitle(page, prefix, now) ==
  IF page.h1 # None THEN Strip(page.h1)
  ELSE IF page.titleTag # None THEN Strip(BeforeBar(page.titleTag))
  ELSE prefix \o <<now>>

FirstNonEmpty_merge(c1, c2, c3, c4) == c1 \o c2 \o c3 \o c4

FirstNonEmpty(c1, c2, c3, c4) ==
  IF c1 # <<>> THEN c1 ELSE IF c2 # <<>> THEN c2 ELSE IF c3 # <<>> THEN c3 ELSE c4

scrape_ebay_listing(page, fetched, now) ==
  IF ~fetched THEN [title |-> None, image_urls |-> <<>>]
  ELSE [title |-> SiteTitle(page, <<"e","B","a","y","_","I","t","e","m","_">>, now),
        image_urls |-> Dedup(FirstNonEmpty(page.m1,
                                           ToFullSize(NonEmptySrc(page.m2)),
                                           NonEmptySrc(page.m3),
                                           NonEmptySrc(page.m4)), {})]

scrape_swappa_listing(page, fetched, now) ==
  IF ~fetched THEN [title |-> None, image_urls |-> <<>>]
  ELSE [title |-> SiteTitle(page, <<"S","w","a","p","p","a","_","I","t","e","m","_">>, now),
        image_urls |-> urljoin(Dedup(FirstNonEmpty(NonEmptySrc(page.m1),
                                                   KeywordOnly(page.m2),
                                                   NonEmptySrc(page.m3),
                                                   NonEmptySrc(page.m4)), {}))]

(***************************************************************************)
(* The listing URLs a batch is drawn from: the host of the URL (the set    *)
(* of site names its netloc contains) and the page served for it.          *)
(***************************************************************************)
Rel(i) == [img |-> i, size |-> 0, query |-> 0, kw |-> TRUE, rel |-> TRUE]

NoPage == [h1 |-> None, titleTag |-> None, m1 |-> <<>>, m2 |-> <<>>, m3 |-> <<>>, m4 |-> <<>>]

Listings ==
  << [host |-> {"ebay"},
      page |-> [NoPage EXCEPT !.h1 = <<" ","T","1">>,
                              !.m1 = <<U(1, 500, 0), U(1, 1600, 1), U(3, 0, 0)>>,
                              !.m3 = <<U(2, 0, 0)>>]],
     [host |-> {"swappa"},
      page |-> [NoPage EXCEPT !.titleTag = <<"T","/","1"," ","|"," ","S">>,
                              !.m2 = <<[Rel(1) EXCEPT !.kw = FALSE], Rel(4)>>,
                              !.m4 = <<U(1, 0, 0)>>]],
     [host |-> {},
      page |-> [NoPage EXCEPT !.h1 = <<"T","3">>, !.m1 = <<U(1, 0, 0)>>]],
     [host |-> {"swappa", "ebay"},
      page |-> [NoPage EXCEPT !.m2 = <<EmptySrc>>, !.m4 = <<EmptySrc>>]],
     [host |-> {"swappa"},
      page |-> [NoPage EXCEPT !.h1 = <<" ">>, !.m1 = <<U(1, 0, 0)>>]] >>

Clock == {"7"}

ContentTypeOf(url) ==
  CASE url.img = 1 -> "image/jpeg"
    [] url.img = 2 -> "image/png"
    [] url.img = 3 -> "text/html"
    [] url.img = 4 -> "image/webp"
    [] OTHER -> "image/gif"

IsImageType(content_type) ==
  content_type \in {"image/jpeg", "image/jpg", "image/png", "image/webp", "image/gif", "image/bmp"}

\* the extensions download_image chooses from
Exts == {"jpg", "png", "webp", "gif"}

ExtOf(content_type) ==
  IF content_type \in {"image/jpeg", "image/jpg"} THEN "jpg"
  ELSE IF content_type = "image/png" THEN "png"
  ELSE IF content_type = "image/webp" THEN "webp"
  ELSE IF content_type = "image/gif" THEN "gif"
  ELSE "jpg"

(***************************************************************************)
(* State.                                                                  *)
(***************************************************************************)
VARIABLES
  urls,         \* the batch: indices into Listings
  max_workers,  \* args.threads
  stats,        \* the global stats dictionary
  dirs,         \* existing directories (<<>> is the base output directory)
  files,        \* existing files: path -> content
  queue,        \* work items submitted to the executor and not yet taken
  submitted,    \* number of URLs executor.map has submitted
  shutdown,     \* the executor has been told to shut down
  mainpc,       \* position of the main thread
  interrupted,  \* signal_handler has run
  snapshot,     \* what signal_handler printed
  report,       \* what the print_stats() call of main printed
  wk,           \* the worker threads
  hist,         \* per URL of the batch: what its process_listing call did
  faults,       \* number of environment failures so far
  app           \* a call of one function of the program on its own: the
                \* function, its input and, once evaluated, its result

vars == <<urls, max_workers, stats, dirs, files, queue, submitted, shutdown,
          mainpc, interrupted, snapshot, report, wk, hist, faults, app>>

MaxFaults == 1

Counters == {"successful_listings", "failed_listings", "successful_images", "failed_images"}

ZeroStats == [c \in Counters |-> 0]
Unprinted == [c \in Counters |-> -1]

base_dir == <<>>

ProvenanceFile(folder_path) == [dir |-> folder_path, idx |-> 0, ext |-> "txt"]
ImageFile(folder_path, index, ext) == [dir |-> folder_path, idx |-> index, ext |-> ext]

Put(fs, path, content) ==
  [p \in DOMAIN fs \cup {path} |-> IF p = path THEN content ELSE fs[p]]

Remove(fs, path) == [p \in DOMAIN fs \ {path} |-> fs[p]]

NoFiles == [p \in {} |-> 0]

\* no function is called on its own during a batch run
NoApp == [fn |-> "none", done |-> FALSE]

IdleWorker ==
  [pc |-> "idle", u |-> 0, title |-> <<>>, image_urls |-> <<>>, i |-> 0,
   ext |-> "", counter |-> "", tmp |-> 0, ret |-> "none"]

NoHist ==
  [started |-> 0, ret |-> "none", incS |-> 0, incF |-> 0, extractor |-> 0,
   fetch |-> "none", result |-> [title |-> None, image_urls |-> <<>>],
   gets |-> 0, mkbase |-> FALSE, mkdir |-> FALSE, prov |-> FALSE, raised |-> FALSE,
   dl |-> <<>>]

Init ==
  /\ urls \in [1..NumUrls -> 1..Len(Listings)]
  /\ max_workers \in 1..MaxThreads
  /\ stats = ZeroStats
  /\ dirs = {}
  /\ files = NoFiles
  /\ queue = <<>>
  /\ submitted = 0
  /\ shutdown = FALSE
  /\ mainpc = "submit"
  /\ interrupted = FALSE
  /\ snapshot = Unprinted
  /\ report = Unprinted
  /\ wk = [w \in 1..max_workers |-> IdleWorker]
  /\ hist = [u \in 1..NumUrls |-> NoHist]
  /\ faults = 0
  /\ app = NoApp

Workers == DOMAIN wk

AllWorkersExited_nowait == TRUE

AllWorkersExited == \A w \in Workers : wk[w].pc = "exited"

(***************************************************************************)
(* The main thread.                                                        *)
(***************************************************************************)
\* executor.map submits the URLs one by one, in input order.
Submit ==
  /\ mainpc = "submit"
  /\ submitted < Len(urls)
  /\ submitted' = submitted + 1
  /\ queue' = Append(queue, submitted + 1)
  /\ UNCHANGED <<app, urls, max_workers, stats, dirs, files, shutdown, mainpc,
                 interrupted, snapshot, report, wk, hist, faults>>

\* Leaving the with block: executor.shutdown(wait=True) starts.
BeginShutdown ==
  /\ mainpc = "submit"
  /\ submitted = Len(urls)
  /\ shutdown' = TRUE
  /\ mainpc' = "join"
  /\ UNCHANGED <<app, urls, max_workers, stats, dirs, files, queue, submitted,
                 interrupted, snapshot, report, wk, hist, faults>>

\* shutdown(wait=True) returns when every worker thread has ended.
Joined ==
  /\ mainpc = "join"
  /\ AllWorkersExited
  /\ mainpc' = "print"
  /\ UNCHANGED <<app, urls, max_workers, stats, dirs, files, queue, submitted, shutdown,
                 interrupted, snapshot, report, wk, hist, faults>>

PrintStats ==
  /\ mainpc = "print"
  /\ report' = stats
  /\ mainpc' = "finalize"
  /\ UNCHANGED <<app, urls, max_workers, stats, dirs, files, queue, submitted, shutdown,
                 interrupted, snapshot, wk, hist, faults>>

\* SIGINT: the handler runs in the main thread, prints the counters and
\* raises SystemExit there.  The exception leaves the with block (whose exit
\* shuts the executor down) and main; the interpreter then finalizes.
SigInt ==
  /\ ~interrupted
  /\ mainpc \in {"submit", "join", "print", "finalize"}
  /\ interrupted' = TRUE
  /\ snapshot' = stats
  /\ shutdown' = TRUE
  /\ mainpc' = "finalize"
  /\ UNCHANGED <<app, urls, max_workers, stats, dirs, files, queue, submitted,
                 report, wk, hist, faults>>

\* Interpreter finalization joins the executor's worker threads, which end
\* only when the work queue is drained; then the process ends.
CanExit == AllWorkersExited

ProcessExit ==
  /\ mainpc = "finalize"
  /\ CanExit
  /\ mainpc' = "done"
  /\ UNCHANGED <<app, urls, max_workers, stats, dirs, files, queue, submitted, shutdown,
                 interrupted, snapshot, report, wk, hist, faults>>

(***************************************************************************)
(* process_listing and download_image, run by the worker threads.          *)
(***************************************************************************)
Dispatch_default(domain) ==
  IF "swappa" \in domain /\ "ebay" \notin domain THEN "swappa" ELSE "ebay"

Dispatch(domain) ==
  IF "ebay" \in domain THEN "ebay"
  ELSE IF "swappa" \in domain THEN "swappa"
  ELSE "unsupported"

ExtractionFailed_titleonly(title, image_urls) ==
  title = None \/ image_urls = <<>>

ExtractionFailed(title, image_urls) ==
  title = None \/ title = <<>> \/ image_urls = <<>>

ImageIndex_zero(i) == i

ImageIndex(i) == i + 1

\* stats[counter] += 1 followed by return ret
BeginInc(wr, counter, ret) ==
  [wr EXCEPT !.pc = "inc_read", !.counter = counter, !.ret = ret]

CatchListing_miscount(wr) == BeginInc(wr, "successful_listings", "false")

\* except Exception of process_listing
CatchListing(wr) == BeginInc(wr, "failed_listings", "false")

\* except Exception of download_image, and its non-image branch
FailImage(wr) == BeginInc(wr, "failed_images", "false")

CompletedCounter_strict(dl) ==
  IF \E k \in 1..Len(dl) : dl[k].ret = "false"
    THEN "failed_listings" ELSE "successful_listings"

\* the counter process_listing increments after its download loop
CompletedCounter(dl) == "successful_listings"

\* download_image has returned: next iteration of the loop, or its end
AfterDownload(wr, dl) ==
  IF wr.i + 1 < Len(wr.image_urls)
    THEN [wr EXCEPT !.pc = "get", !.i = @ + 1, !.ext = "", !.counter = "", !.tmp = 0,
                    !.ret = "none"]
    ELSE BeginInc([wr EXCEPT !.ext = "", !.tmp = 0], CompletedCounter(dl), "true")

\* the record of the download_image call in progress is closed
\* and what is on disk at its return is noted: the JPEG of its index and the
\* file of the extension it chose
CloseDl(dl, ret, counter) ==
  [dl EXCEPT ![Len(dl)] =
     [@ EXCEPT !.ret = ret,
               !.incS = IF counter = "successful_images" THEN @ + 1 ELSE @,
               !.incF = IF counter = "failed_images" THEN @ + 1 ELSE @,
               !.endJpg = ImageFile(dl[Len(dl)].dir, dl[Len(dl)].index, "jpg")
                            \in DOMAIN files,
               !.endOrig = ImageFile(dl[Len(dl)].dir, dl[Len(dl)].index, dl[Len(dl)].ext)
                             \in DOMAIN files]]

\* the download_image call in progress writes the path of extension ext:
\* noted when a file was at that path when the call began
NoteWrite(dl, ext) ==
  [dl EXCEPT ![Len(dl)].over = @ \/ ext \in dl[Len(dl)].had]

NoteConvert(dl, outcome) == [dl EXCEPT ![Len(dl)].conv = outcome]

FaultOK(failed) == ~failed \/ faults < MaxFaults
Faulted(failed) == IF failed THEN faults + 1 ELSE faults

StartListing(w) ==
  /\ wk[w].pc = "idle"
  /\ queue # <<>>
  /\ LET u == Head(queue)
         site == Dispatch(Listings[urls[u]].host)
         wr == [IdleWorker EXCEPT !.u = u]
     IN /\ queue' = Tail(queue)
        /\ hist' = [hist EXCEPT ![u].started = @ + 1]
        /\ wk' = [wk EXCEPT ![w] =
                    IF site = "unsupported" THEN BeginInc(wr, "failed_listings", "false")
                    ELSE [wr EXCEPT !.pc = "scrape"]]
  /\ UNCHANGED <<app, urls, max_workers, stats, dirs, files, submitted, shutdown, mainpc,
                 interrupted, snapshot, report, faults>>

Scrape(w) ==
  /\ wk[w].pc = "scrape"
  /\ \E fetched \in BOOLEAN, now \in Clock :
       LET u == wk[w].u
           L == Listings[urls[u]]
           r == IF Dispatch(L.host) = "ebay"
                  THEN scrape_ebay_listing(L.page, fetched, now)
                  ELSE scrape_swappa_listing(L.page, fetched, now)
       IN /\ FaultOK(~fetched)
          /\ faults' = Faulted(~fetched)
          /\ hist' = [hist EXCEPT ![u].extractor = @ + 1, ![u].gets = @ + 1,
                                  ![u].fetch = IF fetched THEN "ok" ELSE "raised",
                                  ![u].result = r]
          /\ wk' = [wk EXCEPT ![w] =
                      IF ExtractionFailed(r.title, r.image_urls)
                        THEN BeginInc(@, "failed_listings", "false")
                        ELSE [@ EXCEPT !.pc = "mkdir", !.title = r.title,
                                       !.image_urls = r.image_urls]]
  /\ UNCHANGED <<app, urls, max_workers, stats, dirs, files, queue, submitted, shutdown,
                 mainpc, interrupted, snapshot, report>>

\* create_folder: os.path.exists(base_dir), then os.makedirs(folder_path, exist_ok=True)
CreateFolder(w) ==
  /\ wk[w].pc = "mkdir"
  /\ LET u == wk[w].u
         folder_path == sanitize_filename(wk[w].title)
     IN IF base_dir \notin dirs
          THEN /\ wk' = [wk EXCEPT ![w].pc = "mkbase"]
               /\ UNCHANGED <<dirs, hist, faults>>
          ELSE \E ok \in BOOLEAN :
                 /\ FaultOK(~ok)
                 /\ faults' = Faulted(~ok)
                 /\ dirs' = IF ok THEN dirs \cup {folder_path} ELSE dirs
                 /\ hist' = [hist EXCEPT ![u].mkdir = ok, ![u].raised = ~ok]
                 /\ wk' = [wk EXCEPT ![w] =
                             IF ok THEN [@ EXCEPT !.pc = "prov"] ELSE CatchListing(@)]
  /\ UNCHANGED <<app, urls, max_workers, stats, files, queue, submitted, shutdown, mainpc,
                 interrupted, snapshot, report>>

\* create_folder: os.makedirs(base_dir), which raises when base_dir exists by now
MakeBaseDir(w) ==
  /\ wk[w].pc = "mkbase"
  /\ IF base_dir \in dirs
       THEN /\ wk' = [wk EXCEPT ![w] = CatchListing(@)]
            /\ hist' = [hist EXCEPT ![wk[w].u].raised = TRUE]
            /\ UNCHANGED dirs
       ELSE /\ wk' = [wk EXCEPT ![w].pc = "mkdir"]
            /\ hist' = [hist EXCEPT ![wk[w].u].mkbase = TRUE]
            /\ dirs' = dirs \cup {base_dir}
  /\ UNCHANGED <<app, urls, max_workers, stats, files, queue, submitted, shutdown, mainpc,
                 interrupted, snapshot, report, faults>>

\* with open(.../source_url.txt, 'w') as f: f.write(url)
WriteProvenance(w) ==
  /\ wk[w].pc = "prov"
  /\ \E outcome \in {"ok", "open_fails", "write_fails"} :
       LET u == wk[w].u
           path == ProvenanceFile(sanitize_filename(wk[w].title))
       IN /\ FaultOK(outcome # "ok")
          /\ faults' = Faulted(outcome # "ok")
          /\ files' = IF outcome = "open_fails" THEN files
                      ELSE Put(files, path, [by |-> u, what |-> "url", whole |-> outcome = "ok"])
          /\ hist' = [hist EXCEPT ![u].prov = (outcome = "ok"),
                                  ![u].raised = (outcome # "ok")]
          /\ wk' = [wk EXCEPT ![w] =
                      IF outcome = "ok" THEN [@ EXCEPT !.pc = "get", !.i = 0]
                      ELSE CatchListing(@)]
  /\ UNCHANGED <<app, urls, max_workers, stats, dirs, queue, submitted, shutdown, mainpc,
                 interrupted, snapshot, report>>

\* download_image up to the existence check: the GET, the content-type
\* check, the choice of the extension, os.path.exists(file_path)
DownloadGet(w) ==
  /\ wk[w].pc = "get"
  /\ \E ok \in BOOLEAN :
       LET u == wk[w].u
           url == wk[w].image_urls[wk[w].i + 1]
           index == ImageIndex(wk[w].i)
           content_type == ContentTypeOf(url)
           ext == ExtOf(content_type)
           file_path == ImageFile(sanitize_filename(wk[w].title), index, ext)
           isImage == ok /\ IsImageType(content_type)
           exists == isImage /\ file_path \in DOMAIN files
           folder_path == sanitize_filename(wk[w].title)
           call == [url |-> url, index |-> index, ret |-> "run", pre |-> exists,
                    gets |-> 1, incS |-> 0, incF |-> 0,
                    dir |-> folder_path, ext |-> IF isImage THEN ext ELSE "",
                    had |-> {e \in Exts : ImageFile(folder_path, index, e) \in DOMAIN files},
                    over |-> FALSE, conv |-> "none", endJpg |-> FALSE, endOrig |-> FALSE]
           dl == Append(hist[u].dl, call)
       IN /\ FaultOK(~ok)
          /\ faults' = Faulted(~ok)
          /\ IF ~isImage
               THEN /\ wk' = [wk EXCEPT ![w] = FailImage(@)]
                    /\ hist' = [hist EXCEPT ![u].gets = @ + 1, ![u].dl = dl]
               ELSE IF exists
               THEN /\ wk' = [wk EXCEPT ![w] = AfterDownload(@, CloseDl(dl, "true", ""))]
                    /\ hist' = [hist EXCEPT ![u].gets = @ + 1,
                                            ![u].dl = CloseDl(dl, "true", "")]
               ELSE /\ wk' = [wk EXCEPT ![w].pc = "write", ![w].ext = ext]
                    /\ hist' = [hist EXCEPT ![u].gets = @ + 1, ![u].dl = dl]
  /\ UNCHANGED <<app, urls, max_workers, stats, dirs, files, queue, submitted, shutdown,
                 mainpc, interrupted, snapshot, report>>

\* with open(file_path, 'wb') as f: the response body is written in chunks
DownloadWrite(w) ==
  /\ wk[w].pc = "write"
  /\ \E outcome \in {"ok", "open_fails", "write_fails"} :
       LET u == wk[w].u
           file_path == ImageFile(sanitize_filename(wk[w].title), ImageIndex(wk[w].i),
                                  wk[w].ext)
       IN /\ FaultOK(outcome # "ok")
          /\ faults' = Faulted(outcome # "ok")
          /\ files' = IF outcome = "open_fails" THEN files
                      ELSE Put(files, file_path,
                               [by |-> u, what |-> wk[w].ext, whole |-> outcome = "ok"])
          /\ wk' = [wk EXCEPT ![w] =
                      IF outcome # "ok" THEN FailImage(@)
                      ELSE IF wk[w].ext # "jpg" THEN [@ EXCEPT !.pc = "convert"]
                      ELSE BeginInc(@, "successful_images", "true")]
          /\ hist' = IF outcome = "open_fails" THEN hist
                     ELSE [hist EXCEPT ![u].dl = NoteWrite(@, wk[w].ext)]
  /\ UNCHANGED <<app, urls, max_workers, stats, dirs, queue, submitted, shutdown, mainpc,
                 interrupted, snapshot, report>>

\* the conversion to JPEG: Image.open, img.save(jpg_path), os.remove(file_path);
\* a failure at any of the three is logged and the download still succeeds
DownloadConvert(w) ==
  /\ wk[w].pc = "convert"
  /\ \E outcome \in {"ok", "open_fails", "save_fails", "remove_fails"} :
       LET u == wk[w].u
           folder_path == sanitize_filename(wk[w].title)
           file_path == ImageFile(folder_path, ImageIndex(wk[w].i), wk[w].ext)
           jpg_path == ImageFile(folder_path, ImageIndex(wk[w].i), "jpg")
           readable == file_path \in DOMAIN files /\ files[file_path].whole
           jpg(whole) == [by |-> u, what |-> "jpg", whole |-> whole]
       IN /\ outcome # "open_fails" => readable
          /\ FaultOK(outcome # "ok" /\ readable)
          /\ faults' = Faulted(outcome # "ok" /\ readable)
          /\ files' = CASE outcome = "ok" -> Remove(Put(files, jpg_path, jpg(TRUE)), file_path)
                        [] outcome = "open_fails" -> files
                        [] outcome = "save_fails" -> Put(files, jpg_path, jpg(FALSE))
                        [] outcome = "remove_fails" -> Put(files, jpg_path, jpg(TRUE))
          /\ wk' = [wk EXCEPT ![w] = BeginInc(@, "successful_images", "true")]
          /\ hist' = [hist EXCEPT ![u].dl =
                        NoteConvert(IF outcome = "open_fails" THEN @
                                    ELSE NoteWrite(@, "jpg"), outcome)]
  /\ UNCHANGED <<app, urls, max_workers, stats, dirs, queue, submitted, shutdown, mainpc,
                 interrupted, snapshot, report>>

\* stats[counter] += 1, first half: the current value is read
IncRead(w) ==
  /\ wk[w].pc = "inc_read"
  /\ wk' = [wk EXCEPT ![w].pc = "inc_write", ![w].tmp = stats[wk[w].counter]]
  /\ UNCHANGED <<app, urls, max_workers, stats, dirs, files, queue, submitted, shutdown,
                 mainpc, interrupted, snapshot, report, hist, faults>>

\* stats[counter] += 1, second half: the value read plus one is stored; then
\* the function returns
IncWrite(w) ==
  /\ wk[w].pc = "inc_write"
  /\ LET u == wk[w].u
         counter == wk[w].counter
         dl == CloseDl(hist[u].dl, wk[w].ret, counter)
     IN /\ stats' = [stats EXCEPT ![counter] = wk[w].tmp + 1]
        /\ IF counter \in {"successful_images", "failed_images"}
             THEN /\ hist' = [hist EXCEPT ![u].dl = dl]
                  /\ wk' = [wk EXCEPT ![w] = AfterDownload(@, dl)]
             ELSE /\ hist' = [hist EXCEPT
                                ![u].ret = wk[w].ret,
                                ![u].incS = IF counter = "successful_listings" THEN @ + 1 ELSE @,
                                ![u].incF = IF counter = "failed_listings" THEN @ + 1 ELSE @]
                  /\ wk' = [wk EXCEPT ![w] = IdleWorker]
  /\ UNCHANGED <<app, urls, max_workers, dirs, files, queue, submitted, shutdown, mainpc,
                 interrupted, snapshot, report, faults>>

\* a worker thread ends when the executor is shut down and the queue is empty
WorkerExit(w) ==
  /\ wk[w].pc = "idle"
  /\ queue = <<>>
  /\ shutdown
  /\ wk' = [wk EXCEPT ![w].pc = "exited"]
  /\ UNCHANGED <<app, urls, max_workers, stats, dirs, files, queue, submitted, shutdown,
                 mainpc, interrupted, snapshot, report, hist, faults>>

Next ==
  \/ Submit
  \/ BeginShutdown
  \/ Joined
  \/ PrintStats
  \/ SigInt
  \/ ProcessExit
  \/ \E w \in Workers : StartListing(w)
  \/ \E w \in Workers : Scrape(w)
  \/ \E w \in Workers : CreateFolder(w)
  \/ \E w \in Workers : MakeBaseDir(w)
  \/ \E w \in Workers : WriteProvenance(w)
  \/ \E w \in Workers : DownloadGet(w)
  \/ \E w \in Workers : DownloadWrite(w)
  \/ \E w \in Workers : DownloadConvert(w)
  \/ \E w \in Workers : IncRead(w)
  \/ \E w \in Workers : IncWrite(w)
  \/ \E w \in Workers : WorkerExit(w)

Spec == Init /\ [][Next]_vars

(***************************************************************************)
(* The functions of the program called on their own: the input is drawn    *)
(* at the start, the action evaluates the function on it.  No batch runs.  *)
(***************************************************************************)
MaxList == 3

RECURSIVE SeqsUpTo(_, _)
SeqsUpTo(S, n) ==
  IF n = 0 THEN {<<>>}
  ELSE LET shorter == SeqsUpTo(S, n - 1)
       IN shorter \cup {Append(q, x) : q \in {t \in shorter : Len(t) = n - 1}, x \in S}

\* pairs of URL texts that differ at most in the digits of an s-l<digits>
\* token and in the trailing query string
UrlHeads == {<<"h", "/">>, <<"s", "-", "l", "/">>, <<"s", "-", "l", "6", "4", "/">>}
TokenDigits == {<<"6", "4">>, <<"3", "0", "0">>, <<"1", "6", "0", "0">>, <<"5">>}
UrlMids == {<<>>, <<".", "j">>, <<"0", "s", "-", "l">>}
Queries == {<<>>, <<"?">>, <<"?", "a">>, <<"?", "s", "-", "l", "9">>, <<"?", "a", "?", "b">>}
TokenPairs == {<<<<>>, <<>>>>} \cup {<<S_L \o d1, S_L \o d2>> : d1, d2 \in TokenDigits}

UrlPairs ==
  {<<h \o t[1] \o m \o q1, h \o t[2] \o m \o q2>> :
     h \in UrlHeads, t \in TokenPairs, m \in UrlMids, q1 \in Queries, q2 \in Queries}

\* the image URLs candidate lists are drawn from
UrlPool == {U(1, 64, 0), U(1, 300, 1), U(1, 0, 0), U(2, 1600, 0), U(2, 64, 2), Rel(1)}

\* what strategy k may find in a page: nothing, an element without a source,
\* one image, an image followed by one whose URL lacks the keywords, or an
\* image given by its path and again by its absolute URL
Markup(k) ==
  {<<>>, <<EmptySrc>>, <<U(k, 64, 0)>>, <<U(k, 64, 0), [U(k, 0, 1) EXCEPT !.kw = FALSE]>>,
   <<Rel(k), U(k, 0, 0)>>}

\* re.findall of the eBay strategy 1 yields no empty URL and select_one of
\* strategy 3 at most one element
Pages(site) ==
  {[NoPage EXCEPT !.m1 = c1, !.m2 = c2, !.m3 = c3, !.m4 = c4] :
     c1 \in {c \in Markup(1) : site = "swappa" \/ c = NonEmptySrc(c)},
     c2 \in Markup(2),
     c3 \in {c \in Markup(3) : Len(c) <= 1},
     c4 \in Markup(4)}

\* names: a short pattern of characters repeated up to a length
MaxName == 204
NamePatterns ==
  {<<"a">>, <<"T", " ">>, <<"/", "b">>, <<"(", "*", "9", ")">>, <<".", "-", "_", "#", ":">>}
Names ==
  {[i \in 1..n |-> pat[((i - 1) % Len(pat)) + 1]] : n \in 0..MaxName, pat \in NamePatterns}

NoBatchRun ==
  /\ urls = [u \in 1..NumUrls |-> 1]
  /\ max_workers = 1
  /\ stats = ZeroStats
  /\ dirs = {}
  /\ files = NoFiles
  /\ queue = <<>>
  /\ submitted = 0
  /\ shutdown = FALSE
  /\ mainpc = "submit"
  /\ interrupted = FALSE
  /\ snapshot = Unprinted
  /\ report = Unprinted
  /\ wk = [w \in 1..max_workers |-> IdleWorker]
  /\ hist = [u \in 1..NumUrls |-> NoHist]
  /\ faults = 0

InitFn ==
  /\ NoBatchRun
  /\ \/ app \in {[fn |-> "normalize", done |-> FALSE, a |-> p[1], b |-> p[2],
                   ka |-> <<>>, kb |-> <<>>] : p \in UrlPairs}
     \/ app \in {[fn |-> "dedup", done |-> FALSE, in |-> l, out |-> <<>>] :
                   l \in SeqsUpTo(UrlPool, MaxList)}
     \/ app \in {[fn |-> "sanitize", done |-> FALSE, in |-> name, out |-> <<>>] :
                   name \in Names}
     \/ \E site \in {"ebay", "swappa"} :
          app \in {[fn |-> "scrape", done |-> FALSE, site |-> site, page |-> pg,
                    out |-> <<>>] : pg \in Pages(site)}

Batch == <<urls, max_workers, stats, dirs, files, queue, submitted, shutdown,
           mainpc, interrupted, snapshot, report, wk, hist, faults>>

ApplyNormalize ==
  /\ app.fn = "normalize" /\ ~app.done
  /\ app' = [app EXCEPT !.done = TRUE,
                        !.ka = normalize_image_url_text(app.a),
                        !.kb = normalize_image_url_text(app.b)]
  /\ UNCHANGED Batch

\* the loop "Normalize and deduplicate image URLs" of both extractors
ApplyDedup ==
  /\ app.fn = "dedup" /\ ~app.done
  /\ app' = [app EXCEPT !.done = TRUE, !.out = Dedup(app.in, {})]
  /\ UNCHANGED Batch

\* the image extraction of the two extractors on a fetched page
ApplyScrapeEbay ==
  /\ app.fn = "scrape" /\ ~app.done /\ app.site = "ebay"
  /\ \E now \in Clock :
       app' = [app EXCEPT !.done = TRUE,
                          !.out = scrape_ebay_listing(app.page, TRUE, now).image_urls]
  /\ UNCHANGED Batch

ApplyScrapeSwappa ==
  /\ app.fn = "scrape" /\ ~app.done /\ app.site = "swappa"
  /\ \E now \in Clock :
       app' = [app EXCEPT !.done = TRUE,
                          !.out = scrape_swappa_listing(app.page, TRUE, now).image_urls]
  /\ UNCHANGED Batch

ApplySanitize ==
  /\ app.fn = "sanitize" /\ ~app.done
  /\ app' = [app EXCEPT !.done = TRUE, !.out = sanitize_filename(app.in)]
  /\ UNCHANGED Batch

NextFn ==
  \/ ApplySanitize
  \/ ApplyNormalize
  \/ ApplyDedup
  \/ ApplyScrapeEbay
  \/ ApplyScrapeSwappa

SpecFn == InitFn /\ [][NextFn]_vars

(***************************************************************************)
(* One session.get(url, ...) of get_session's session, followed by         *)
(* response.raise_for_status() and the except clause of the caller.  The   *)
(* session retries through urllib3's Retry(total=3, status_forcelist=      *)
(* [429, 500, 502, 503, 504], allowed_methods=["GET", "HEAD"]): connect    *)
(* and read are left at None, so connection and read errors and timeouts   *)
(* draw on total as well, and respect_retry_after_header is left at True,  *)
(* so a 413, 429 or 503 reply with a Retry-After header is retried while   *)
(* total is not 0.  requests follows a redirect with a new request, which  *)
(* starts from the Retry object of the adapter again.                      *)
(***************************************************************************)
RetryTotal == 3
status_forcelist == {429, 500, 502, 503, 504}
RETRY_AFTER_STATUS_CODES == {413, 429, 503}
MaxRedirects == 1

Statuses == {200, 302, 404, 413, 429, 500, 501, 502, 503, 504}

Replies ==
  {[status |-> st, retry_after |-> ra, error |-> "none"] : st \in Statuses, ra \in BOOLEAN}
    \cup {[status |-> 0, retry_after |-> FALSE, error |-> e] : e \in {"connect", "read"}}

NoReply == [status |-> 0, retry_after |-> FALSE, error |-> "none"]

Callers == {"download_image", "scrape_ebay_listing", "scrape_swappa_listing"}

is_retry_every_error(reply, total) == reply.status \notin {200, 302}

\* Retry.is_retry for a GET
is_retry(reply, total) ==
  \/ reply.status \in status_forcelist
  \/ total # 0 /\ reply.retry_after /\ reply.status \in RETRY_AFTER_STATUS_CODES

IsRedirect(reply) == reply.error = "none" /\ reply.status = 302

InitFetch ==
  /\ NoBatchRun
  /\ app \in {[fn |-> "fetch", done |-> FALSE, caller |-> c, pc |-> "send", hop |-> 0,
                total |-> RetryTotal, attempts |-> 0, sent |-> 0, last |-> NoReply,
                exhausted |-> FALSE, result |-> "none"] : c \in Callers}

\* one request is sent and answered, or fails; Retry.increment decides
Send ==
  /\ app.fn = "fetch" /\ app.pc = "send"
  /\ \E reply \in Replies :
       /\ IsRedirect(reply) => app.hop < MaxRedirects
       /\ LET sent == [app EXCEPT !.attempts = @ + 1, !.sent = @ + 1, !.last = reply]
          IN app' =
               IF reply.error # "none" \/ is_retry(reply, app.total)
                 THEN IF app.total = 0
                        THEN [sent EXCEPT !.pc = "raised", !.exhausted = TRUE]
                        ELSE [sent EXCEPT !.pc = "backoff", !.total = @ - 1]
               ELSE IF IsRedirect(reply)
                 THEN [sent EXCEPT !.hop = @ + 1, !.total = RetryTotal, !.attempts = 0]
               ELSE [sent EXCEPT !.pc = "response"]
  /\ UNCHANGED Batch

\* the sleep before a retry
Backoff ==
  /\ app.fn = "fetch" /\ app.pc = "backoff"
  /\ app' = [app EXCEPT !.pc = "send"]
  /\ UNCHANGED Batch

\* response.raise_for_status()
RaiseForStatus ==
  /\ app.fn = "fetch" /\ app.pc = "response"
  /\ app' = IF app.last.status >= 400
              THEN [app EXCEPT !.pc = "raised"]
              ELSE [app EXCEPT !.pc = "returned", !.done = TRUE, !.result = "response"]
  /\ UNCHANGED Batch

\* except Exception of the caller
Except ==
  /\ app.fn = "fetch" /\ app.pc = "raised"
  /\ app' = [app EXCEPT !.pc = "returned", !.done = TRUE,
                        !.result = IF app.caller = "download_image"
                                     THEN "failed_images += 1; return False"
                                     ELSE "return None, []"]
  /\ UNCHANGED Batch

NextFetch ==
  \/ Send
  \/ Backoff
  \/ RaiseForStatus
  \/ Except

SpecFetch == InitFetch /\ [][NextFetch]_vars

(***************************************************************************)
(* The dashboard (src/listing_image_scraper_ui.py).  It replaces           *)
(* download_image and process_listing of the scraper module by wrappers    *)
(* that keep counters of their own in st.session_state.stats, and runs a   *)
(* batch in one thread, process_urls_thread, one URL after the other.      *)
(* custom_process_listing repeats process_listing statement by statement,  *)
(* so the worker actions above, taken by the one thread, are its steps on  *)
(* the scraper's side; the actions below are the dashboard's own           *)
(* statements.  app holds the session: the run, whether it has ended,      *)
(* st.session_state.stats (ui), and how many download results (imgs) and   *)
(* which listings (lst) the wrappers have counted so far in this run.      *)
(***************************************************************************)
MaxRuns == 2

UiThread == 1

InitUI ==
  /\ urls \in [1..NumUrls -> 1..Len(Listings)]
  /\ max_workers = 1
  /\ stats = ZeroStats
  /\ dirs = {}
  /\ files = NoFiles
  /\ queue = <<>>
  /\ submitted = 0
  /\ shutdown = FALSE
  /\ mainpc = "submit"
  /\ interrupted = FALSE
  /\ snapshot = Unprinted
  /\ report = Unprinted
  /\ wk = [w \in 1..max_workers |-> IdleWorker]
  /\ hist = [u \in 1..NumUrls |-> NoHist]
  /\ faults = 0
  /\ app = [fn |-> "ui", done |-> FALSE, run |-> 1, ui |-> ZeroStats,
            imgs |-> [u \in 1..NumUrls |-> 0], lst |-> {}]

\* the download_image calls of u that have returned
ReturnedCalls(u) == {k \in 1..Len(hist[u].dl) : hist[u].dl[k].ret # "run"}

\* the wrappers have counted everything that has returned
UiSynced ==
  \A u \in 1..NumUrls :
    /\ app.imgs[u] = Cardinality(ReturnedCalls(u))
    /\ hist[u].ret # "none" => u \in app.lst

\* for url in urls: listing_scraper.process_listing(url)
UiProcessNext ==
  /\ ~app.done
  /\ UiSynced
  /\ wk[UiThread].pc = "idle"
  /\ queue = <<>>
  /\ submitted < Len(urls)
  /\ submitted' = submitted + 1
  /\ queue' = <<submitted + 1>>
  /\ UNCHANGED <<app, urls, max_workers, stats, dirs, files, shutdown, mainpc,
                 interrupted, snapshot, report, wk, hist, faults>>

\* custom_download_image after original_download_image has returned:
\* if result: st.session_state.stats['successful_images'] += 1, else
\* st.session_state.stats['failed_images'] += 1
UiCountImage ==
  /\ \E u \in 1..NumUrls :
       /\ app.imgs[u] < Cardinality(ReturnedCalls(u))
       /\ LET result == hist[u].dl[app.imgs[u] + 1].ret
              counter == IF result = "true" THEN "successful_images" ELSE "failed_images"
          IN app' = [app EXCEPT !.imgs[u] = @ + 1, !.ui[counter] = @ + 1]
  /\ UNCHANGED Batch

\* custom_process_listing after each listing_scraper.stats[...] += 1: the
\* same counter of st.session_state.stats is incremented
UiCountListing ==
  /\ \E u \in 1..NumUrls :
       /\ hist[u].ret # "none"
       /\ u \notin app.lst
       /\ LET counter == IF hist[u].ret = "true" THEN "successful_listings"
                         ELSE "failed_listings"
          IN app' = [app EXCEPT !.lst = @ \cup {u}, !.ui[counter] = @ + 1]
  /\ UNCHANGED Batch

\* the loop of process_urls_thread has ended: the final statistics are shown
UiFinish ==
  /\ ~app.done
  /\ UiSynced
  /\ wk[UiThread].pc = "idle"
  /\ queue = <<>>
  /\ submitted = Len(urls)
  /\ app' = [app EXCEPT !.done = TRUE]
  /\ UNCHANGED Batch

\* Start Scraping is pressed again in the session: process_urls_thread
\* assigns a new zero dictionary to listing_scraper.stats; nothing assigns
\* st.session_state.stats, and the files of the earlier run are on disk
UiStartRun ==
  /\ app.done
  /\ app.run < MaxRuns
  /\ app' = [app EXCEPT !.done = FALSE, !.run = @ + 1,
                        !.imgs = [u \in 1..NumUrls |-> 0], !.lst = {}]
  /\ stats' = ZeroStats
  /\ hist' = [u \in 1..NumUrls |-> NoHist]
  /\ submitted' = 0
  /\ urls' \in [1..NumUrls -> 1..Len(Listings)]
  /\ UNCHANGED <<max_workers, dirs, files, queue, shutdown, mainpc,
                 interrupted, snapshot, report, wk, faults>>

NextUI ==
  \/ UiProcessNext
  \/ UiCountImage
  \/ UiCountListing
  \/ UiFinish
  \/ UiStartRun
  \/ UiSynced /\ StartListing(UiThread)
  \/ UiSynced /\ Scrape(UiThread)
  \/ UiSynced /\ CreateFolder(UiThread)
  \/ UiSynced /\ MakeBaseDir(UiThread)
  \/ UiSynced /\ WriteProvenance(UiThread)
  \/ UiSynced /\ DownloadGet(UiThread)
  \/ UiSynced /\ DownloadWrite(UiThread)
  \/ UiSynced /\ DownloadConvert(UiThread)
  \/ UiSynced /\ IncRead(UiThread)
  \/ UiSynced /\ IncWrite(UiThread)

SpecUI == InitUI /\ [][NextUI]_vars

(***************************************************************************)
(* Properties.                                                             *)
(***************************************************************************)
RECURSIVE SumTo(_, _)
SumTo(f, n) == IF n = 0 THEN 0 ELSE f[n] + SumTo(f, n - 1)

\* number of increments the download_image calls performed on an image counter
ImageOps(counter) ==
  SumTo([u \in 1..NumUrls |->
           SumTo([k \in 1..Len(hist[u].dl) |->
                    IF counter = "successful_images" THEN hist[u].dl[k].incS
                    ELSE hist[u].dl[k].incF],
                 Len(hist[u].dl))],
        NumUrls)

Returned(u) == hist[u].ret # "none"

BatchFinished == submitted = NumUrls /\ AllWorkersExited

\* C1: once every worker has finished a batch of N URLs, no increment is
\* lost: successful_listings + failed_listings = N, and each image counter
\* equals the number of increments performed on it.
C1_NoIncrementLost ==
  BatchFinished =>
    /\ stats["successful_listings"] + stats["failed_listings"] = NumUrls
    /\ stats["successful_images"] = ImageOps("successful_images")
    /\ stats["failed_images"] = ImageOps("failed_images")

\* C2: a download_image call whose target file already exists sends no GET.
C2_NoGetWhenTargetExists ==
  \A u \in 1..NumUrls : \A k \in 1..Len(hist[u].dl) :
    hist[u].dl[k].pre => hist[u].dl[k].gets = 0

\* a thread with nothing left to do has ended
IdleThreadsEnded == queue = <<>> => \A w \in Workers : wk[w].pc # "idle"

\* C3: after the SIGINT handler has run, the process can exit whatever the
\* workers are doing: its exit does not wait for a listing in flight or in
\* the queue.
C3_ExitDoesNotWaitForWorkers ==
  (interrupted /\ snapshot # Unprinted /\ mainpc = "finalize" /\ IdleThreadsEnded)
    => ENABLED ProcessExit

C5_ProcessNeverRaises ==
  \A u \in 1..NumUrls :
    /\ hist[u].ret \in {"none", "true", "false"}
    /\ ~Returned(u) => hist[u].incS + hist[u].incF = 0
    /\ Returned(u) =>
         /\ hist[u].incS + hist[u].incF = 1
         /\ hist[u].incS = 1 <=> hist[u].ret = "true"
         /\ hist[u].raised => hist[u].ret = "false"

C5_Witness ==
  \E u \in 1..NumUrls : hist[u].raised /\ hist[u].ret = "false" /\ hist[u].incF = 1

Unsupported(u) == Listings[urls[u]].host \cap {"ebay", "swappa"} = {}

\* C6: a listing whose host contains neither ebay nor swappa fails at once:
\* no extractor call, no request, no folder, no file, one increment of
\* failed_listings, return value false.
C6_UnsupportedHostFails ==
  \A u \in 1..NumUrls :
    Unsupported(u) =>
      /\ hist[u].extractor = 0 /\ hist[u].gets = 0
      /\ ~hist[u].mkbase /\ ~hist[u].mkdir /\ ~hist[u].prov /\ hist[u].dl = <<>>
      /\ \A p \in DOMAIN files : files[p].by # u
      /\ hist[u].incS = 0
      /\ Returned(u) => hist[u].ret = "false" /\ hist[u].incF = 1

C6_Witness ==
  \E u, v \in 1..NumUrls :
    /\ Unsupported(u) /\ hist[u].ret = "false"
    /\ hist[v].ret = "true" /\ \E k \in 1..Len(hist[v].dl) : hist[v].dl[k].ret = "true"

EmptyResult(u) ==
  hist[u].result.title \in {None, <<>>} \/ hist[u].result.image_urls = <<>>

\* C7: an extractor whose fetch or parse raised returns (None, []); and when
\* the title or the image list returned is empty, process_listing creates no
\* folder, writes no file, downloads nothing, counts one failed listing and
\* returns false.
C7_ExtractionFailureIsData ==
  \A u \in 1..NumUrls :
    /\ hist[u].fetch = "raised" => hist[u].result = [title |-> None, image_urls |-> <<>>]
    /\ (hist[u].extractor > 0 /\ EmptyResult(u)) =>
         /\ ~hist[u].mkbase /\ ~hist[u].mkdir /\ ~hist[u].prov /\ hist[u].dl = <<>>
         /\ \A p \in DOMAIN files : files[p].by # u
         /\ hist[u].incS = 0
         /\ Returned(u) => hist[u].ret = "false" /\ hist[u].incF = 1

C7_Witness ==
  \E u, v \in 1..NumUrls :
    /\ hist[u].fetch = "raised" /\ hist[u].ret = "false"
    /\ hist[v].fetch = "ok" /\ hist[v].result.title = <<>>
    /\ hist[v].result.image_urls # <<>> /\ hist[v].ret = "false"

\* C8: once the folder exists and the provenance file is written, the
\* listing is successful whatever its downloads return.
C8_SuccessIndependentOfImages ==
  \A u \in 1..NumUrls :
    (hist[u].mkdir /\ hist[u].prov /\ Returned(u)) =>
      hist[u].ret = "true" /\ hist[u].incS = 1 /\ hist[u].incF = 0

C8_Witness ==
  \E u \in 1..NumUrls :
    /\ hist[u].ret = "true"
    /\ Len(hist[u].dl) = 2
    /\ \A k \in 1..2 : hist[u].dl[k].ret = "false"
    /\ \E k \in 1..2 : ~IsImageType(ContentTypeOf(hist[u].dl[k].url))

\* C9: no download starts before the folder is created and the provenance
\* file written; the k-th download is of the k-th extracted URL with index
\* k; a download starts only after the one before has returned; and a
\* listing that succeeded has downloaded every URL once.
C9_SequentialDownloads ==
  \A u \in 1..NumUrls :
    LET dl == hist[u].dl
        image_urls == hist[u].result.image_urls
    IN /\ dl # <<>> =>
            /\ hist[u].mkdir /\ hist[u].prov
            /\ sanitize_filename(hist[u].result.title) \in dirs
            /\ ProvenanceFile(sanitize_filename(hist[u].result.title)) \in DOMAIN files
       /\ Len(dl) <= Len(image_urls)
       /\ \A k \in 1..Len(dl) : dl[k].url = image_urls[k] /\ dl[k].index = k
       /\ \A k \in 1..(Len(dl) - 1) : dl[k].ret # "run"
       /\ hist[u].ret = "true" => Len(dl) = Len(image_urls) /\ dl[Len(dl)].ret # "run"

C9_Witness ==
  \E u \in 1..NumUrls :
    /\ hist[u].ret = "true"
    /\ Len(hist[u].dl) = 2
    /\ hist[u].dl[1].ret = "true"

\* C10: every download_image call that has returned has changed exactly one
\* image counter by one: successful_images iff it returned true.
C10_EveryDownloadCounts ==
  \A u \in 1..NumUrls : \A k \in 1..Len(hist[u].dl) :
    LET d == hist[u].dl[k]
    IN d.ret # "run" =>
         /\ d.incS + d.incF = 1
         /\ d.incS = 1 <=> d.ret = "true"

\* every download_image call u has made or has in progress
Calls(u) == 1..Len(hist[u].dl)

\* C11: a download never overwrites an existing file: no download_image
\* call writes a path at which a file already was when the call began.
C11_NeverOverwrites ==
  \A u \in 1..NumUrls : \A k \in Calls(u) : ~hist[u].dl[k].over

\* the folder process_listing of u writes to
FolderOf(u) == sanitize_filename(hist[u].result.title)

\* C12: two different listing URLs that are both processed successfully in
\* one batch write to different folders.
C12_DistinctFolders ==
  \A u, v \in 1..NumUrls :
    (urls[u] # urls[v] /\ hist[u].ret = "true" /\ hist[v].ret = "true")
      => FolderOf(u) # FolderOf(v)

\* C13: when download_image has returned true for a response that selected
\* a non-JPEG extension and whose conversion succeeded, at its return the
\* .jpg file of its index exists and the intermediate file does not.
C13_ConvertedLeavesOnlyJpeg ==
  \A u \in 1..NumUrls : \A k \in Calls(u) :
    LET d == hist[u].dl[k]
    IN (d.ret = "true" /\ d.ext \in Exts \ {"jpg"} /\ d.conv = "ok")
         => (d.endJpg /\ ~d.endOrig)

ConvertFailures == {"open_fails", "save_fails", "remove_fails"}

\* C14: when the conversion of a downloaded non-JPEG image has failed at any
\* step, download_image returns true, the image is counted in
\* successful_images and not in failed_images, and at the return the file
\* it downloaded is on disk under its original extension.
C14_ConvertFailureKeepsOriginal ==
  \A u \in 1..NumUrls : \A k \in Calls(u) :
    LET d == hist[u].dl[k]
    IN (d.ret # "run" /\ d.conv \in ConvertFailures)
         => (d.ret = "true" /\ d.incS = 1 /\ d.incF = 0 /\ d.endOrig)

\* some image file of index k is in the folder
HasImageFile(folder_path, k) ==
  \E e \in Exts : ImageFile(folder_path, k, e) \in DOMAIN files

\* C19: after a listing has been processed, for every index k a file
\* {sanitized_title}_{k}.* is in its folder if and only if the download of
\* the k-th image returned true.
C19_FileIffDownloaded ==
  \A u \in 1..NumUrls :
    (Returned(u) /\ hist[u].dl # <<>>)
      => \A k \in Calls(u) :
           HasImageFile(FolderOf(u), hist[u].dl[k].index) <=> hist[u].dl[k].ret = "true"

Done(fn) == app.fn = fn /\ app.done

\* the normalized key of an image URL, from its text
KeyOf(url) == normalize_image_url_text(Text(url))

\* the entries of list at the positions in keep, in the order of list
RECURSIVE Pick(_, _, _)
Pick(list, keep, i) ==
  IF i > Len(list) THEN <<>>
  ELSE (IF i \in keep THEN <<list[i]>> ELSE <<>>) \o Pick(list, keep, i + 1)

\* of every normalized key in list the first URL that has it, in input order
FirstSeen(list) ==
  Pick(list, {i \in 1..Len(list) : \A j \in 1..(i - 1) : KeyOf(list[j]) # KeyOf(list[i])}, 1)

\* C15: two image URLs that differ only in the digits of an s-l<digits>
\* token or in a trailing query string normalize to the same key, and
\* deduplication keeps, of every distinct normalized key of its input, exactly
\* the first URL seen, in the relative order of the input.
C15_NormalizeAndStableDedup ==
  /\ Done("normalize") => app.ka = app.kb
  /\ Done("dedup") => app.out = FirstSeen(app.in)

\* a list with three URLs of one key and a second key in between was
\* deduplicated to the first of each
C15_Witness ==
  /\ Done("dedup")
  /\ app.in = <<U(1, 300, 1), U(2, 64, 2), U(1, 64, 0)>>
  /\ app.out = <<U(1, 300, 1), U(2, 64, 2)>>

\* the elements strategy k accepts in the page (the image of a URL drawn by
\* Markup(k) is k)
Accepted(site, page, k) ==
  LET found == CASE k = 1 -> page.m1 [] k = 2 -> page.m2 [] k = 3 -> page.m3
                 [] OTHER -> page.m4
  IN {found[i] : i \in 1..Len(found)}
       \ {x \in {found[i] : i \in 1..Len(found)} :
            x = EmptySrc \/ (site = "swappa" /\ k = 2 /\ ~x.kw)}

Strategies == 1..4

\* the strategies the URLs of list come from
StrategiesIn(list) == {list[i].img : i \in 1..Len(list)}

\* C16: the image list of an extractor comes from exactly one strategy, the
\* lowest-numbered one that yields at least one URL, with every distinct key
\* that strategy found; it is empty only when no strategy yields a URL.
C16_FirstStrategyOnly ==
  Done("scrape") =>
    LET yielding == {k \in Strategies : Accepted(app.site, app.page, k) # {}}
    IN IF yielding = {} THEN app.out = <<>>
       ELSE \E k \in yielding :
              /\ \A j \in yielding : k <= j
              /\ StrategiesIn(app.out) = {k}
              /\ \A x \in Accepted(app.site, app.page, k) :
                    \E i \in 1..Len(app.out) :
                      normalize_image_url(app.out[i]) = normalize_image_url(urljoin(<<x>>)[1])

\* strategies 1, 2 and 4 of a Swappa page all yield URLs and the list is
\* that of strategy 1
C16_Witness ==
  /\ Done("scrape")
  /\ app.site = "swappa"
  /\ \A k \in {1, 2, 4} : Accepted(app.site, app.page, k) # {}
  /\ StrategiesIn(app.out) = {1}

AllowedChars == Letters \cup Digits \cup {"_", ".", "(", ")", "-"}

\* name without the characters outside the allowed set and the space, its
\* spaces turned into underscores
Stripped(name) ==
  LET Kept(c) == c \in AllowedChars \cup {" "}
      kept == SelectSeq(name, Kept)
  IN [i \in 1..Len(kept) |-> IF kept[i] = " " THEN "_" ELSE kept[i]]

Ellipsis == <<".", ".", ".">>

\* C17: the output of sanitize_filename holds only characters of
\* [A-Za-z0-9_.()-] and is at most 100 long; it is the first 97 characters
\* of the stripped input followed by "..." when the stripped input is longer
\* than 100, and the stripped input otherwise.
C17_SanitizerCharsetAndLength ==
  Done("sanitize") =>
    /\ \A i \in 1..Len(app.out) : app.out[i] \in AllowedChars
    /\ Len(app.out) <= MaxNameLen
    /\ app.out = IF Len(Stripped(app.in)) > MaxNameLen
                   THEN SubSeq(Stripped(app.in), 1, KeptLen) \o Ellipsis
                   ELSE Stripped(app.in)

\* a name with spaces whose stripped form is longer than 100 was cut
C17_Witness ==
  /\ Done("sanitize")
  /\ \E i \in 1..Len(app.in) : app.in[i] = " "
  /\ Len(Stripped(app.in)) > MaxNameLen
  /\ Len(app.out) = MaxNameLen
  /\ SubSeq(app.out, KeptLen + 1, MaxNameLen) = Ellipsis

\* C20: the image list an extractor returns has no two entries that are
\* equal or have the same normalized key (for Swappa: the list after
\* urljoin).
C20_ReturnedListDeduplicated ==
  Done("scrape") =>
    \A i, j \in 1..Len(app.out) :
      i # j => (app.out[i] # app.out[j] /\ KeyOf(app.out[i]) # KeyOf(app.out[j]))

Fetching == app.fn = "fetch"

MaxAttempts == RetryTotal + 1

Is2xx(reply) == reply.error = "none" /\ reply.status \in 200..299
Is4xx(reply) == reply.error = "none" /\ reply.status \in 400..499

FailureOf(caller) ==
  IF caller = "download_image" THEN "failed_images += 1; return False"
  ELSE "return None, []"

\* retry exhaustion ends in the except clause of the caller
ExhaustionSurfaces ==
  app.exhausted =>
    /\ app.pc \in {"raised", "returned"}
    /\ app.pc = "returned" => app.result = FailureOf(app.caller)

\* C18 as stated: a fetch sends at most 4 requests in total; it retries
\* only after a reply of status 429, 500, 502, 503 or 504; a 2xx reply or
\* any other 4xx reply ends the fetch without a retry; exhaustion of the
\* retries surfaces as a failed download or extraction.
C18_RetryOnlyOnListedStatus ==
  Fetching =>
    /\ app.sent <= MaxAttempts
    /\ app.pc = "backoff" => app.last.status \in status_forcelist
    /\ (Is2xx(app.last) \/ (Is4xx(app.last) /\ app.last.status \notin status_forcelist))
         => app.pc \notin {"backoff", "send"}
    /\ ExhaustionSurfaces

\* the replies after which the session retries
Retried(reply) ==
  \/ reply.error # "none"
  \/ reply.status \in status_forcelist
  \/ reply.retry_after /\ reply.status \in RETRY_AFTER_STATUS_CODES

\* C18, amended: every request of a fetch (the first and each redirect) is
\* attempted at most 4 times; a retry happens only after a reply of status
\* 429, 500, 502, 503 or 504, a reply of status 413 with a Retry-After
\* header, or a connection or read error or timeout; a 2xx reply and a 4xx
\* reply other than those end the fetch without a retry; exhaustion of the
\* retries surfaces as a failed download or extraction.
C18_BoundedRetryOfTransientFailures ==
  Fetching =>
    /\ app.attempts <= MaxAttempts
    /\ app.pc = "backoff" => Retried(app.last)
    /\ ((Is2xx(app.last) \/ Is4xx(app.last)) /\ ~Retried(app.last))
         => app.pc \notin {"backoff", "send"}
    /\ ExhaustionSurfaces

\* the fourth attempt of a download's request failed as the three before it,
\* the retries were exhausted, and download_image returned False
C18_Witness ==
  /\ Fetching
  /\ app.caller = "download_image"
  /\ app.attempts = MaxAttempts
  /\ app.last.status \in status_forcelist
  /\ app.exhausted
  /\ app.pc = "returned"
  /\ app.result = FailureOf("download_image")

\* a run started from the dashboard has ended
UiRunEnded == app.fn = "ui" /\ app.done

\* C21: at the end of every run started from the dashboard, a first one or
\* a later one of the session, each of the four counters of the dashboard
\* equals the counter of the scraper for that run.
C21_UiCountersFaithful == UiRunEnded => app.ui = stats

====
